---- MODULE Spec2Model ----
(***************************************************************************)
(* A model of app.py, the excuse generator: the believability scorer, the  *)
(* fallback selector, the generator that chooses between the external text *)
(* generator and the fallback, and the HTTP handlers over the persisted    *)
(* User, Excuse and ProofDocument rows and the proof files.                *)
(*                                                                         *)
(* Scores are integers in tenths: 5.0 is 50, 10.0 is 100.  The jitter      *)
(* random.uniform(-0.8, 1.2) is drawn at a resolution of one tenth.        *)
(*                                                                         *)
(* A text is a record [lit, words, kws, pad]: lit names the string, words is *)
(* len(text.split()) and kws is the set of vocabulary words that occur in  *)
(* text.lower() as substrings.  No vocabulary word is a substring of       *)
(* another, so every set of them can occur in a text of one word or more.  *)
(*                                                                         *)
(* A JSON value is a record [kind, val]: a dict holds a function from its  *)
(* keys, a list a sequence, "null" stands for any value that is neither.   *)
(***************************************************************************)
EXTENDS Integers, Sequences, FiniteSets, TLC

VARIABLES
    excuses_db,   \* ExcuseGenerator.excuses_db, the fallback table
    api_key,      \* openai.api_key: "" when no credential is configured
    tts_available, \* the speech backend was imported and initialised
    users,        \* the User rows: a set of records
    excuses,      \* the Excuse rows: a sequence, the row of id i at index i
    proofs,       \* the ProofDocument rows: a sequence, the row of id i at index i
    files,        \* the paths written under static/proofs and static/audio
    now,          \* datetime.now(), in half seconds
    resp,         \* the last HTTP request and its response
    call          \* the last call of a method of ExcuseGenerator and its result

vars == <<excuses_db, api_key, tts_available, users, excuses, proofs, files, now, resp, call>>

\* ------------------------------------------------------------------ bounds

MaxWords == 61        \* the longest generated text, in words
MaxKeywords == 5      \* the most vocabulary words one generated text contains
MaxRnd == 2           \* the values random.choice draws its index from
MaxExcuses == 1       \* Excuse rows
MaxProofs == 2        \* ProofDocument rows
MaxNow == 1           \* the last instant of the clock, in half seconds

\* ------------------------------------------------------------- JSON values

Dict(f) == [kind |-> "dict", val |-> f]
List(s) == [kind |-> "list", val |-> s]
Null    == [kind |-> "null", val |-> <<>>]
EmptyDict == Dict(<<>>)

Min(a, b) == IF a <= b THEN a ELSE b
Max(a, b) == IF a >= b THEN a ELSE b

\* dict.get(key, default) on a dict
DictGet(d, key, default) ==
    IF key \in DOMAIN d.val THEN d.val[key] ELSE default

\* pad: the string starts or ends with whitespace
Str(lit, words, kws) == [lit |-> lit, words |-> words, kws |-> kws, pad |-> FALSE]

\* str.strip()
strip(text) == [text EXCEPT !.pad = FALSE]

\* ------------------------------------------------------------ the scorer

specific_words ==
    {"doctor", "meeting", "emergency", "appointment", "family", "car", "sick",
     "traffic", "urgent", "hospital"}

urgency_words(urgency) ==
    CASE urgency = "high" ->
           {"emergency", "urgent", "immediately", "crisis", "hospital", "serious"}
      [] urgency = "medium" ->
           {"appointment", "meeting", "issue", "problem", "doctor", "important"}
      [] urgency = "low" ->
           {"feeling", "might", "possibly", "may", "think", "probably"}
      [] OTHER -> {}

\* the slip `score =- 1.0` for `score -= 1.0`
length_heuristic_assigns(score, length) ==
    IF 10 <= length /\ length <= 40 THEN score + 15
    ELSE IF length < 5 \/ length > 60 THEN -10
    ELSE score

length_heuristic(score, length) ==
    IF 10 <= length /\ length <= 40 THEN score + 15
    ELSE IF length < 5 \/ length > 60 THEN score - 10
    ELSE score

specificity_bonus(excuse_text) ==
    Min(Cardinality(specific_words \cap excuse_text.kws) * 5, 20)

urgency_bonus(excuse_text, urgency) ==
    IF urgency_words(urgency) \cap excuse_text.kws # {} THEN 15 ELSE 0

calculate_believability(excuse_text, category, urgency) ==
    LET score == length_heuristic(50, excuse_text.words)
                   + specificity_bonus(excuse_text)
                   + urgency_bonus(excuse_text, urgency)
    IN  Min(score, 100)

\* ------------------------------------------------------ the fallback table

MinimalFallbacks ==
    Dict([l \in {"en"} |-> Dict([c \in {"work"} |-> Dict(
        [u \in {"medium", "high", "low"} |->
            CASE u = "medium" ->
                   List(<<Str("I'm not feeling well and need to rest today.", 9, {"feeling"})>>)
              [] u = "high" ->
                   List(<<Str("I have an emergency that requires immediate attention.", 8, {"emergency"})>>)
              [] OTHER ->
                   List(<<Str("I have some personal matters to attend to.", 8, {})>>)])])])

DefaultOption == Str("I need to handle something important today.", 7, {"important"})
SentinelExcuse == Str("I have an unexpected situation that requires my attention.", 9, {})

\* A candidate of a loaded excuses.json, named after the list that holds it.
Cand(l, c, u, i) == Str(l \o "/" \o c \o "/" \o u \o "#" \o ToString(i), 12, {})
Cands(l, c, u, n) == List([i \in 1..n |-> Cand(l, c, u, i)])

\* excuses.json with every default present.
LoadedFull ==
    Dict([l \in {"en", "es"} |->
        IF l = "en"
        THEN Dict([c \in {"work", "family"} |->
                 IF c = "work"
                 THEN Dict([u \in {"low", "medium", "high"} |-> Cands("en", "work", u, 2)])
                 ELSE Dict([u \in {"medium", "high"} |-> Cands("en", "family", u, 2)])])
        ELSE Dict([c \in {"work", "health"} |->
                 IF c = "work"
                 THEN Dict([u \in {"medium"} |-> Cands("es", "work", u, 1)])
                 ELSE Dict([u \in {"low"} |-> Cands("es", "health", u, 2)])])])

\* excuses.json without 'en', and a language without 'work' and without 'medium'.
LoadedNoDefaults ==
    Dict([l \in {"es"} |-> Dict([c \in {"family"} |->
        Dict([u \in {"high"} |-> Cands("es", "family", u, 2)])])])

\* excuses.json with a list that holds no candidates.
LoadedEmptyList ==
    Dict([l \in {"en"} |-> Dict([c \in {"work", "family"} |->
        IF c = "work"
        THEN Dict([u \in {"medium", "high"} |->
                 IF u = "high" THEN List(<<>>) ELSE Cands("en", "work", u, 1)])
        ELSE Dict([u \in {"medium"} |-> List(<<>>)])])])

\* excuses.json with entries that are not of the table's shape.
LoadedMalformed ==
    Dict([l \in {"en", "es"} |->
        IF l = "es" THEN Null
        ELSE Dict([c \in {"work", "family"} |->
                 IF c = "work" THEN Null
                 ELSE Dict([u \in {"medium", "high"} |->
                          IF u = "medium" THEN Null ELSE Cands("en", "family", u, 1)])])])

ExcusesJson == {LoadedFull, LoadedNoDefaults, LoadedEmptyList, LoadedMalformed, Null}

\* ExcuseGenerator.__init__: the table after the load of excuses.json.
LoadExcusesDb(outcome, content) ==
    CASE outcome = "loaded" -> content
      [] outcome = "FileNotFoundError" -> MinimalFallbacks
      [] OTHER -> EmptyDict

Tables ==
    {LoadExcusesDb("loaded", j) : j \in ExcusesJson}
        \cup {LoadExcusesDb("FileNotFoundError", Null), LoadExcusesDb("Exception", Null)}

\* --------------------------------------------------- the fallback selector

\* line 186 without the default: a language the table lacks finds nothing
lookup_language_no_default(db, language) == DictGet(db, language, EmptyDict)

\* line 186
lookup_language(db, language) == DictGet(db, language, DictGet(db, "en", EmptyDict))

\* line 187 with the key 'work' for the requested category
lookup_category_work_only(language_excuses, category) ==
    DictGet(language_excuses, "work", EmptyDict)

\* line 187
lookup_category(language_excuses, category) ==
    DictGet(language_excuses, category, DictGet(language_excuses, "work", EmptyDict))

\* line 188
lookup_urgency(category_excuses, urgency) ==
    DictGet(category_excuses, urgency,
            DictGet(category_excuses, "medium", List(<<DefaultOption>>)))

\* Lines 186-188: the three lookups.  A .get on a value that is no dict raises.
fallback_lookup(db, category, urgency, language) ==
    IF db.kind # "dict" THEN [raised |-> TRUE, options |-> Null]
    ELSE LET language_excuses == lookup_language(db, language)
         IN  IF language_excuses.kind # "dict" THEN [raised |-> TRUE, options |-> Null]
             ELSE LET category_excuses == lookup_category(language_excuses, category)
                  IN  IF category_excuses.kind # "dict"
                      THEN [raised |-> TRUE, options |-> Null]
                      ELSE [raised |-> FALSE,
                            options |-> lookup_urgency(category_excuses, urgency)]

\* random.choice(seq): raises on a value that is no sequence and on an empty one.
choice_raises(seq) == seq.kind # "list" \/ Len(seq.val) = 0
random_choice(seq, rnd) == seq.val[(rnd % Len(seq.val)) + 1]

\* random.uniform(-0.8, 1.2), in tenths
random_uniform == -8 .. 12

base_score(urgency) ==
    CASE urgency = "low" -> 65
      [] urgency = "medium" -> 75
      [] urgency = "high" -> 85
      [] OTHER -> 75

\* a clamp to the scale 0.5 .. 1.0 of a fraction
clamp_score_fraction(score) == Min(Max(score, 5), 10)

clamp_score(score) == Min(Max(score, 50), 100)

Result(text, score, category, scenario, urgency) ==
    [excuse |-> text, believability_score |-> score, category |-> category,
     scenario |-> scenario, urgency |-> urgency]

\* the except branch answers the sentinel whatever was raised
get_fallback_excuse_default_on_raise(db, category, scenario, urgency, language, rnd, jitter) ==
    LET looked == fallback_lookup(db, category, urgency, language)
    IN  IF looked.raised \/ choice_raises(looked.options)
        THEN Result(DefaultOption, clamp_score(base_score(urgency) + jitter),
                    category, scenario, urgency)
        ELSE Result(random_choice(looked.options, rnd),
                    clamp_score(base_score(urgency) + jitter),
                    category, scenario, urgency)

get_fallback_excuse(db, category, scenario, urgency, language, rnd, jitter) ==
    LET looked == fallback_lookup(db, category, urgency, language)
    IN  IF looked.raised \/ choice_raises(looked.options)
        THEN Result(SentinelExcuse, 70, category, scenario, urgency)
        ELSE Result(random_choice(looked.options, rnd),
                    clamp_score(base_score(urgency) + jitter),
                    category, scenario, urgency)

\* ------------------------------------------------------------ the generator

\* openai.ChatCompletion.create and the reading of its response: "ok" carries
\* the content of the first choice, every other kind raises inside the try.
ApiRaises(api) == api.kind # "ok"

Traced(ret, ai, scorer, fallback) ==
    [ret |-> ret, ai_calls |-> ai, scorer_calls |-> scorer, fallback_calls |-> fallback]

\* lines 109-111 dropped: the external generator is tried without a credential
generate_excuse_no_key_check(db, key, category, scenario, urgency, language, api, rnd, jitter) ==
    IF ~ApiRaises(api)
    THEN LET excuse_text == strip(api.content)
         IN  Traced(Result(excuse_text,
                           calculate_believability(excuse_text, category, urgency),
                           category, scenario, urgency), 1, 1, 0)
    ELSE Traced(get_fallback_excuse(db, category, scenario, urgency, language, rnd, jitter),
                1, 0, 1)

\* the except branch of lines 154-157 tries the external generator again
generate_excuse_retries(db, key, category, scenario, urgency, language, api, rnd, jitter) ==
    IF key = ""
    THEN Traced(get_fallback_excuse(db, category, scenario, urgency, language, rnd, jitter),
                0, 0, 1)
    ELSE IF ~ApiRaises(api)
    THEN LET excuse_text == strip(api.content)
         IN  Traced(Result(excuse_text,
                           calculate_believability(excuse_text, category, urgency),
                           category, scenario, urgency), 1, 1, 0)
    ELSE Traced(get_fallback_excuse(db, category, scenario, urgency, language, rnd, jitter),
                2, 0, 1)

\* ExcuseGenerator.generate_excuse: the result and the calls it made.
ExcuseGenerator_generate_excuse(db, key, category, scenario, urgency, language, api, rnd, jitter) ==
    IF key = ""
    THEN Traced(get_fallback_excuse(db, category, scenario, urgency, language, rnd, jitter),
                0, 0, 1)
    ELSE IF ~ApiRaises(api)
    THEN LET excuse_text == strip(api.content)
         IN  Traced(Result(excuse_text,
                           calculate_believability(excuse_text, category, urgency),
                           category, scenario, urgency), 1, 1, 0)
    ELSE Traced(get_fallback_excuse(db, category, scenario, urgency, language, rnd, jitter),
                1, 0, 1)

\* ------------------------------------------------- the inputs of the calls

Categories == {"work", "family", "zz"}
Scenarios  == {"general", "x"}
Urgencies  == {"low", "medium", "high", "asap"}
Languages  == {"en", "es", "xx"}
Rnds       == 0 .. (MaxRnd - 1)

NoCall == [fn |-> "none"]
NoResp == [op |-> "none"]

\* The state after construction: the table is loaded, the store is empty.
InitStore ==
    /\ users = {}
    /\ excuses = <<>>
    /\ proofs = <<>>
    /\ files = {}
    /\ now = 0
    /\ resp = NoResp
    /\ call = NoCall

\* ------------------------------------- get_fallback_excuse, called alone

InitFallback ==
    /\ excuses_db \in Tables
    /\ api_key = ""
    /\ tts_available = FALSE
    /\ InitStore

CallFallback ==
    /\ call = NoCall
    /\ \E category \in Categories, scenario \in Scenarios, urgency \in Urgencies,
       language \in Languages, rnd \in Rnds, jitter \in random_uniform :
        /\ call' = [fn |-> "get_fallback_excuse",
                    category |-> category, scenario |-> scenario,
                    urgency |-> urgency, language |-> language,
                    rnd |-> rnd, jitter |-> jitter,
                    ret |-> get_fallback_excuse(excuses_db, category, scenario,
                                                urgency, language, rnd, jitter)]
        /\ UNCHANGED <<excuses_db, api_key, tts_available, users, excuses, proofs, files, now, resp>>

NextFallback == CallFallback

SpecFallback == InitFallback /\ [][NextFallback]_vars

FallbackCalled == call.fn = "get_fallback_excuse"

\* The lookup of the last call raised: the except branch of lines 207-215 ran.
FallbackRaised ==
    LET looked == fallback_lookup(excuses_db, call.category, call.urgency, call.language)
    IN  looked.raised \/ choice_raises(looked.options)

\* The resolution by defaults as a reader of the table sees it: the requested
\* key where the table holds it, else 'en', 'work', 'medium'.
HasKey(d, k) == d.kind = "dict" /\ k \in DOMAIN d.val
Elems(l) == IF l.kind = "list" THEN {l.val[i] : i \in 1..Len(l.val)} ELSE {}

ResolvedOptions(db, category, urgency, language) ==
    LET l == IF HasKey(db, language) THEN language ELSE "en"
    IN  IF ~HasKey(db, l) THEN {}
        ELSE LET c == IF HasKey(db.val[l], category) THEN category ELSE "work"
             IN  IF ~HasKey(db.val[l], c) THEN {}
                 ELSE LET u == IF HasKey(db.val[l].val[c], urgency) THEN urgency
                               ELSE "medium"
                      IN  IF ~HasKey(db.val[l].val[c], u) THEN {}
                          ELSE Elems(db.val[l].val[c].val[u])

LastResolved == ResolvedOptions(excuses_db, call.category, call.urgency, call.language)

\* C2: the score get_fallback_excuse returns lies in [5.0, 10.0], whatever the
\* table, the category, the scenario, the urgency, the language and the jitter,
\* on the normal path and on the path of the except branch.
C2_FallbackScoreInRange ==
    FallbackCalled =>
        /\ call.ret.believability_score >= 50
        /\ call.ret.believability_score <= 100

\* A call with an urgency outside low/medium/high and the lowest jitter, on the
\* normal path.
C2_Witness ==
    /\ FallbackCalled
    /\ ~FallbackRaised
    /\ call.urgency = "asap"
    /\ call.jitter = -8
    /\ call.ret.believability_score = 67

AllPresent ==
    /\ HasKey(excuses_db, call.language)
    /\ HasKey(excuses_db.val[call.language], call.category)
    /\ HasKey(excuses_db.val[call.language].val[call.category], call.urgency)

RequestedList == excuses_db.val[call.language].val[call.category].val[call.urgency]

\* The candidates of every list of the table but the one at <<l, c, u>>.
OtherCandidates(db, l, c, u) ==
    UNION {Elems(db.val[l2].val[c2].val[u2]) :
             <<l2, c2, u2>> \in {t \in Languages \X Categories \X Urgencies :
                 /\ t # <<l, c, u>>
                 /\ HasKey(db, t[1])
                 /\ HasKey(db.val[t[1]], t[2])
                 /\ HasKey(db.val[t[1]].val[t[2]], t[3])}}

Echoes ==
    /\ call.ret.category = call.category
    /\ call.ret.scenario = call.scenario
    /\ call.ret.urgency = call.urgency

\* C4 as stated: with language, category and urgency all present in the table,
\* the text is an element of table[language][category][urgency] and of no other
\* list, and the result echoes category, scenario and urgency.
C4_PresentTextFromRequestedList ==
    (FallbackCalled /\ AllPresent) =>
        /\ call.ret.excuse \in Elems(RequestedList)
        /\ call.ret.excuse \notin
               OtherCandidates(excuses_db, call.language, call.category, call.urgency)
        /\ Echoes

\* C4, amended: with language, category and urgency all present in the table and
\* table[language][category][urgency] a list that holds candidates, the text is an
\* element of that list and of no other list; the result echoes category,
\* scenario and urgency in every case.
C4_PresentNonEmptyTextFromRequestedList ==
    FallbackCalled =>
        /\ Echoes
        /\ (AllPresent /\ Elems(RequestedList) # {}) =>
              /\ call.ret.excuse \in Elems(RequestedList)
              /\ call.ret.excuse \notin
                     OtherCandidates(excuses_db, call.language, call.category,
                                     call.urgency)

\* fallback('work', 'x', 'high', 'en') on a table with an en/work/high list.
C4_Witness ==
    /\ FallbackCalled
    /\ excuses_db = LoadedFull
    /\ call.category = "work" /\ call.scenario = "x"
    /\ call.urgency = "high" /\ call.language = "en"
    /\ call.ret.excuse = Cand("en", "work", "high", 1)

IsSentinel(ret) == ret.excuse = SentinelExcuse /\ ret.believability_score = 70

GenText(words, kws, pad) == [lit |-> "generated", words |-> words, kws |-> kws, pad |-> pad]
NoContent == GenText(0, {}, FALSE)

SampleContents ==
    {GenText(12, {"doctor", "appointment"}, TRUE), GenText(3, {}, FALSE),
     GenText(0, {}, TRUE)}

ApiOutcomes ==
    {[kind |-> "ok", content |-> t] : t \in SampleContents}
        \cup {[kind |-> k, content |-> NoContent] :
                 k \in {"network", "auth", "quota", "malformed"}}

ApiKeys == {"", "sk-test"}

InitGenerate ==
    /\ excuses_db \in {MinimalFallbacks, LoadedFull, LoadedEmptyList}
    /\ api_key \in ApiKeys
    /\ tts_available = FALSE
    /\ InitStore

CallGenerate ==
    /\ call = NoCall
    /\ \E category \in Categories, scenario \in Scenarios, urgency \in Urgencies,
       language \in Languages, api \in ApiOutcomes, rnd \in Rnds,
       jitter \in random_uniform :
        LET r == ExcuseGenerator_generate_excuse(excuses_db, api_key, category,
                     scenario, urgency, language, api, rnd, jitter)
        IN  /\ call' = [fn |-> "generate_excuse",
                        category |-> category, scenario |-> scenario,
                        urgency |-> urgency, language |-> language,
                        api |-> api, rnd |-> rnd, jitter |-> jitter,
                        ret |-> r.ret, ai_calls |-> r.ai_calls,
                        scorer_calls |-> r.scorer_calls,
                        fallback_calls |-> r.fallback_calls]
            /\ UNCHANGED <<excuses_db, api_key, tts_available, users, excuses, proofs, files, now, resp>>

NextGenerate == CallGenerate

SpecGenerate == InitGenerate /\ [][NextGenerate]_vars

GenerateCalled == call.fn = "generate_excuse"

\* What get_fallback_excuse answers for the arguments and draws of the last call.
FallbackOfLastCall ==
    get_fallback_excuse(excuses_db, call.category, call.scenario, call.urgency,
                        call.language, call.rnd, call.jitter)

\* C6: without a credential generate_excuse calls neither the external text
\* generator nor the scorer, and returns what get_fallback_excuse returns for
\* the same category, scenario, urgency and language.
C6_NoKeyDelegatesToFallback ==
    (GenerateCalled /\ api_key = "") =>
        /\ call.ai_calls = 0
        /\ call.scorer_calls = 0
        /\ call.fallback_calls = 1
        /\ call.ret = FallbackOfLastCall

\* No credential, and an external generator that would have answered.
C6_Witness ==
    /\ GenerateCalled
    /\ api_key = ""
    /\ call.api.kind = "ok"
    /\ call.ret.excuse # strip(call.api.content)
    /\ call.ai_calls = 0

ResultFields == {"excuse", "believability_score", "category", "scenario", "urgency"}

\* C7: with a credential generate_excuse calls the external text generator at
\* most once; when that call or the reading of its response raises, it calls
\* the fallback selector exactly once and returns its result; it always returns
\* a result {excuse, believability_score, category, scenario, urgency}.
C7_SingleShotFallback ==
    (GenerateCalled /\ api_key # "") =>
        /\ call.ai_calls = 1
        /\ DOMAIN call.ret = ResultFields
        /\ ApiRaises(call.api) =>
              /\ call.fallback_calls = 1
              /\ call.scorer_calls = 0
              /\ call.ret = FallbackOfLastCall
        /\ ~ApiRaises(call.api) =>
              /\ call.fallback_calls = 0
              /\ call.ret.excuse = strip(call.api.content)

\* A credential, and a call of the external generator that fails on quota.
C7_Witness ==
    /\ GenerateCalled
    /\ api_key # ""
    /\ call.api.kind = "quota"
    /\ call.ai_calls = 1
    /\ call.fallback_calls = 1
    /\ call.ret = FallbackOfLastCall

\* -------------------------------------------------------- the HTTP handlers

DemoUser == [id |-> 1, username |-> "demo_user", email |-> "demo@example.com"]

\* Query.get with any row for the row of the given id
query_get_first(rows, id) == IF Len(rows) > 0 THEN 1 ELSE 0

\* Model.query.get(id) on a table whose row of id i is rows[i]: the id of the
\* row found, 0 for None.
query_get(rows, id) == IF id \in DOMAIN rows THEN id ELSE 0

\* User.query.get(user_id) finds a row
user_found(user_id) == \E u \in users : u.id = user_id

\* db.session.commit() of the demo user (line 243) raises IntegrityError: the
\* primary key 1, the username or the email is taken.
demo_user_conflicts ==
    \E u \in users :
        u.id = DemoUser.id \/ u.username = DemoUser.username \/ u.email = DemoUser.email

NewExcuse(id, user_id, category, scenario, urgency, language, excuse_data) ==
    [id |-> id, user_id |-> user_id, category |-> category, scenario |-> scenario,
     excuse_text |-> excuse_data.excuse,
     believability_score |-> excuse_data.believability_score,
     urgency_level |-> urgency, language |-> language, proof_generated |-> FALSE]

\* POST /api/generate-excuse, lines 224-269.
generate_excuse(category, scenario, urgency, language, user_id, api, rnd, jitter) ==
    LET excuse_data == ExcuseGenerator_generate_excuse(excuses_db, api_key, category,
                           scenario, urgency, language, api, rnd, jitter).ret
        req == [category |-> category, scenario |-> scenario, urgency |-> urgency,
                language |-> language, user_id |-> user_id]
        id == Len(excuses) + 1
    IN  IF ~user_found(user_id) /\ demo_user_conflicts
        THEN /\ resp' = [op |-> "generate_excuse", req |-> req, status |-> 500,
                         body |-> [success |-> FALSE, error |-> "IntegrityError"],
                         render |-> "none", renderer_calls |-> 0]
             /\ UNCHANGED <<users, excuses>>
        ELSE /\ Len(excuses) < MaxExcuses
             /\ users' = IF user_found(user_id) THEN users ELSE users \cup {DemoUser}
             /\ excuses' = Append(excuses, NewExcuse(id, user_id, category, scenario,
                                                     urgency, language, excuse_data))
             /\ resp' = [op |-> "generate_excuse", req |-> req, status |-> 200,
                         body |-> [success |-> TRUE, excuse_id |-> id,
                                   excuse |-> excuse_data.excuse,
                                   believability_score |->
                                       excuse_data.believability_score,
                                   category |-> category, urgency |-> urgency],
                         render |-> "none", renderer_calls |-> 0]

\* datetime.now().strftime('%Y%m%d_%H%M%S'): the instant cut to its second
strftime(t) == t \div 2

NoPath == [prefix |-> "None", id |-> 0, stamp |-> 0, ext |-> ""]

\* f"static/proofs/{prefix}_{excuse.id}_{stamp}.{ext}"
ProofPath(prefix, excuse, t, ext) ==
    [prefix |-> prefix, id |-> excuse.id, stamp |-> strftime(t), ext |-> ext]

\* The three renderers: the path of the file written, None when anything raised.
Rendered(path, calls) == [path |-> path, calls |-> calls]

generate_fake_email(excuse, render, t) ==
    IF render = "ok" THEN ProofPath("email", excuse, t, "png") ELSE NoPath

generate_fake_receipt(excuse, render, t) ==
    IF render = "ok" THEN ProofPath("receipt", excuse, t, "pdf") ELSE NoPath

generate_medical_note(excuse, render, t) ==
    IF render = "ok" THEN ProofPath("medical", excuse, t, "pdf") ELSE NoPath

\* a last branch that renders the email for any other proof_type
generate_proof_document_email_default(excuse, proof_type, render, t) ==
    CASE proof_type = "receipt" -> Rendered(generate_fake_receipt(excuse, render, t), 1)
      [] proof_type = "medical_note" ->
             Rendered(generate_medical_note(excuse, render, t), 1)
      [] OTHER -> Rendered(generate_fake_email(excuse, "ok", t), 1)

\* generate_proof_document, lines 381-392: no branch for another proof_type, so
\* the function ends and returns None.
generate_proof_document(excuse, proof_type, render, t) ==
    CASE proof_type = "email" -> Rendered(generate_fake_email(excuse, render, t), 1)
      [] proof_type = "receipt" -> Rendered(generate_fake_receipt(excuse, render, t), 1)
      [] proof_type = "medical_note" ->
             Rendered(generate_medical_note(excuse, render, t), 1)
      [] OTHER -> Rendered(NoPath, 0)

NotFoundBody == [success |-> FALSE, error |-> "Excuse not found"]
FailedBody == [success |-> FALSE, error |-> "Failed to generate proof"]

\* line 293 dropped: the ProofDocument row is added, the flag is not set
generate_proof_flag_unset(excuse_id, proof_type, render) ==
    LET req == [excuse_id |-> excuse_id, proof_type |-> proof_type]
        found == query_get(excuses, excuse_id)
    IN  IF found = 0
        THEN /\ resp' = [op |-> "generate_proof", req |-> req, status |-> 200,
                         body |-> NotFoundBody, render |-> "none",
                         renderer_calls |-> 0]
             /\ UNCHANGED <<excuses, proofs, files>>
        ELSE LET doc == generate_proof_document(excuses[found], proof_type, render, now)
             IN  IF doc.path # NoPath
                 THEN /\ Len(proofs) < MaxProofs
                      /\ proofs' = Append(proofs,
                             [id |-> Len(proofs) + 1, excuse_id |-> excuse_id,
                              document_type |-> proof_type, file_path |-> doc.path])
                      /\ files' = files \cup {doc.path}
                      /\ resp' = [op |-> "generate_proof", req |-> req, status |-> 200,
                                  body |-> [success |-> TRUE, proof_path |-> doc.path,
                                            download_url |-> doc.path],
                                  render |-> render, renderer_calls |-> doc.calls]
                      /\ UNCHANGED excuses
                 ELSE /\ resp' = [op |-> "generate_proof", req |-> req, status |-> 200,
                                  body |-> FailedBody, render |-> render,
                                  renderer_calls |-> doc.calls]
                      /\ UNCHANGED <<excuses, proofs, files>>

\* POST /api/generate-proof, lines 271-304.
generate_proof(excuse_id, proof_type, render) ==
    LET req == [excuse_id |-> excuse_id, proof_type |-> proof_type]
        found == query_get(excuses, excuse_id)
    IN  IF found = 0
        THEN /\ resp' = [op |-> "generate_proof", req |-> req, status |-> 200,
                         body |-> NotFoundBody, render |-> "none",
                         renderer_calls |-> 0]
             /\ UNCHANGED <<excuses, proofs, files>>
        ELSE LET doc == generate_proof_document(excuses[found], proof_type, render, now)
             IN  IF doc.path # NoPath
                 THEN /\ Len(proofs) < MaxProofs
                      /\ proofs' = Append(proofs,
                             [id |-> Len(proofs) + 1, excuse_id |-> excuse_id,
                              document_type |-> proof_type, file_path |-> doc.path])
                      /\ excuses' = [excuses EXCEPT ![found].proof_generated = TRUE]
                      /\ files' = files \cup {doc.path}
                      /\ resp' = [op |-> "generate_proof", req |-> req, status |-> 200,
                                  body |-> [success |-> TRUE, proof_path |-> doc.path,
                                            download_url |-> doc.path],
                                  render |-> render, renderer_calls |-> doc.calls]
                 ELSE /\ resp' = [op |-> "generate_proof", req |-> req, status |-> 200,
                                  body |-> FailedBody, render |-> render,
                                  renderer_calls |-> doc.calls]
                      /\ UNCHANGED <<excuses, proofs, files>>

\* f"static/audio/excuse_{excuse_id}_{stamp}.mp3"
AudioPath(excuse_id, t) ==
    [prefix |-> "excuse", id |-> excuse_id, stamp |-> strftime(t), ext |-> "mp3"]

\* line 332: the language of the speech
tts_language(excuse) ==
    IF excuse.language \in {"en", "hi", "es", "fr", "de"} THEN excuse.language ELSE "en"

\* POST /api/voice-excuse, lines 306-348.  speech is what gTTS does: "ok", or
\* "raises" before the file is opened, or "save_raises" once tts.save has
\* opened it.
voice_excuse(excuse_id, speech) ==
    LET req == [excuse_id |-> excuse_id]
        found == query_get(excuses, excuse_id)
        answer(body) == [op |-> "voice_excuse", req |-> req, status |-> 200,
                         body |-> body, render |-> "none", renderer_calls |-> 0]
    IN  IF found = 0
        THEN /\ resp' = answer(NotFoundBody)
             /\ UNCHANGED files
        ELSE IF ~tts_available
        THEN /\ resp' = answer([success |-> FALSE,
                                error |-> "Voice features not available"])
             /\ UNCHANGED files
        ELSE IF speech = "ok"
        THEN /\ files' = files \cup {AudioPath(excuse_id, now)}
             /\ resp' = answer([success |-> TRUE,
                                audio_url |-> AudioPath(excuse_id, now),
                                message |-> tts_language(excuses[found])])
        ELSE /\ files' = IF speech = "save_raises"
                         THEN files \cup {AudioPath(excuse_id, now)} ELSE files
             /\ resp' = answer([success |-> FALSE, error |-> "Voice generation failed"])

RECURSIVE Reversed(_)
Reversed(seq) ==
    IF seq = <<>> THEN <<>> ELSE Append(Reversed(Tail(seq)), Head(seq))

RECURSIVE OwnedBy(_, _)
\* Excuse.query.filter_by(user_id=user_id), in the order of the ids
OwnedBy(rows, user_id) ==
    IF rows = <<>> THEN <<>>
    ELSE IF Head(rows).user_id = user_id
         THEN <<Head(rows)>> \o OwnedBy(Tail(rows), user_id)
         ELSE OwnedBy(Tail(rows), user_id)

\* paginate(page, per_page, error_out=False): the items of the page
Page(rows, page, per_page) ==
    SubSeq(rows, (page - 1) * per_page + 1, Min(page * per_page, Len(rows)))

Summary(excuse) ==
    [id |-> excuse.id, category |-> excuse.category, scenario |-> excuse.scenario,
     excuse_text |-> excuse.excuse_text,
     believability_score |-> excuse.believability_score]

\* GET /api/excuse-history, lines 350-379: the newest excuse first.
excuse_history(user_id, page, per_page) ==
    LET owned == Reversed(OwnedBy(excuses, user_id))
        items == Page(owned, page, per_page)
    IN  resp' = [op |-> "excuse_history",
                 req |-> [user_id |-> user_id, page |-> page, per_page |-> per_page],
                 status |-> 200,
                 body |-> [success |-> TRUE,
                           excuses |-> [i \in DOMAIN items |-> Summary(items[i])],
                           total |-> Len(owned),
                           pages |-> (Len(owned) + per_page - 1) \div per_page,
                           current_page |-> page],
                 render |-> "none", renderer_calls |-> 0]

\* ------------------------------------------------ the application, served

UserIds == {1, 2}
ProofTypes == {"email", "receipt", "medical_note"}
RequestedProofTypes == ProofTypes \cup {"video"}
RenderOutcomes == {"ok", "error"}
ServedApiOutcomes ==
    {[kind |-> "ok", content |-> GenText(12, {"doctor", "appointment"}, TRUE)],
     [kind |-> "quota", content |-> NoContent]}

Init ==
    /\ excuses_db = MinimalFallbacks
    /\ api_key \in ApiKeys
    /\ tts_available = FALSE
    /\ InitStore

GenerateExcuse ==
    \E user_id \in UserIds, api \in ServedApiOutcomes :
        /\ generate_excuse("work", "general", "medium", "en", user_id, api, 0, 0)
        /\ UNCHANGED <<excuses_db, api_key, tts_available, proofs, files, now, call>>

GenerateProof ==
    \E excuse_id \in 1 .. (MaxExcuses + 1), proof_type \in RequestedProofTypes,
       render \in RenderOutcomes :
        /\ generate_proof(excuse_id, proof_type, render)
        /\ UNCHANGED <<excuses_db, api_key, tts_available, users, now, call>>

\* The clock advances between requests.
Tick ==
    /\ now < MaxNow
    /\ now' = now + 1
    /\ UNCHANGED <<excuses_db, api_key, tts_available, users, excuses, proofs, files, resp, call>>

Next == GenerateExcuse \/ GenerateProof \/ Tick

Spec == Init /\ [][Next]_vars

\* C8: a generate-proof request for an excuse id that does not exist answers
\* {success: false, error: 'Excuse not found'}, calls no renderer, adds no
\* ProofDocument row, writes no file and changes no Excuse row.
C8_MissingExcuseChangesNothing ==
    [][(resp'.op = "generate_proof" /\ resp'.req.excuse_id \notin DOMAIN excuses) =>
          /\ resp'.body = NotFoundBody
          /\ resp'.renderer_calls = 0
          /\ proofs' = proofs
          /\ excuses' = excuses
          /\ files' = files]_vars

\* A request for an id that does not exist, with another excuse stored.
C8_Witness ==
    /\ resp.op = "generate_proof"
    /\ Len(excuses) >= 1
    /\ resp.req.excuse_id \notin DOMAIN excuses
    /\ resp.body = NotFoundBody

\* C9: no two ProofDocument rows share a file_path: the paths of any two
\* renderer invocations are distinct.
C9_ProofPathsDistinct ==
    \A i, j \in DOMAIN proofs : i # j => proofs[i].file_path # proofs[j].file_path

\* C10: when the renderer yields no path for an existing excuse (it raised, or
\* the proof_type is none of email, receipt, medical_note), generate-proof
\* answers {success: false, error: 'Failed to generate proof'}, has called a
\* renderer at most once, adds no ProofDocument row and leaves every Excuse row,
\* proof_generated included, as it was.
C10_RenderFailureChangesNothing ==
    [][(/\ resp'.op = "generate_proof"
        /\ resp'.req.excuse_id \in DOMAIN excuses
        /\ (resp'.render = "error" \/ resp'.req.proof_type \notin ProofTypes)) =>
          /\ resp'.body = FailedBody
          /\ resp'.renderer_calls <= 1
          /\ proofs' = proofs
          /\ excuses' = excuses]_vars

\* A receipt renderer that raised, for an excuse whose flag stays unset.
C10_Witness ==
    /\ resp.op = "generate_proof"
    /\ resp.req.excuse_id \in DOMAIN excuses
    /\ resp.req.proof_type = "receipt"
    /\ resp.render = "error"
    /\ resp.renderer_calls = 1
    /\ resp.body = FailedBody
    /\ ~excuses[resp.req.excuse_id].proof_generated
    /\ proofs = <<>>

\* --------------------------------- calculate_believability over the texts

\* The vocabulary the drawn texts contain words of: words that count for the
\* specificity alone, for an urgency alone, and for both.
TextVocabulary ==
    {"emergency", "doctor", "family", "car", "sick", "immediately", "feeling"}

\* A text of no word is empty or whitespace and contains no vocabulary word.
DrawnTexts ==
    {GenText(n, k, FALSE) :
        <<n, k>> \in {t \in (0 .. MaxWords) \X SUBSET TextVocabulary :
                         /\ Cardinality(t[2]) <= MaxKeywords
                         /\ (t[1] = 0 => t[2] = {})}}

InitScore ==
    /\ excuses_db = MinimalFallbacks
    /\ api_key = "sk-test"
    /\ tts_available = FALSE
    /\ users = {}
    /\ excuses = <<>>
    /\ proofs = <<>>
    /\ files = {}
    /\ now = 0
    /\ resp = NoResp
    /\ call \in [fn : {"input"}, excuse_text : DrawnTexts,
                 category : {"work", "zz"}, urgency : Urgencies]

\* calculate_believability(excuse_text, category, urgency), called alone.
ScoreText ==
    /\ call.fn = "input"
    /\ call' = [fn |-> "calculate_believability", excuse_text |-> call.excuse_text,
                category |-> call.category, urgency |-> call.urgency,
                ret |-> calculate_believability(call.excuse_text, call.category,
                                                call.urgency)]
    /\ UNCHANGED <<excuses_db, api_key, tts_available, users, excuses, proofs, files, now, resp>>

\* POST /api/generate-excuse with a credential, answered by the external
\* generator with the text scored: the AI path, down to the Excuse row.
PersistScored ==
    /\ call.fn = "calculate_believability"
    /\ generate_excuse(call.category, "general", call.urgency, "en", 1,
                       [kind |-> "ok", content |-> call.excuse_text], 0, 0)
    /\ call' = [call EXCEPT !.fn = "persisted"]
    /\ UNCHANGED <<excuses_db, api_key, tts_available, proofs, files, now>>

NextScore == ScoreText \/ PersistScored

SpecScore == InitScore /\ [][NextScore]_vars

\* C1: for every text (the empty one included), category and urgency (known or
\* not), calculate_believability returns a score s with 0 <= s <= 10, and the
\* Excuse row persisted on the AI path holds a score in [0, 10].
C1_ScoreInRange ==
    /\ call.fn \in {"calculate_believability", "persisted"} =>
          (call.ret >= 0 /\ call.ret <= 100)
    /\ \A i \in DOMAIN excuses :
          /\ excuses[i].believability_score >= 0
          /\ excuses[i].believability_score <= 100

\* The empty text under an urgency outside low/medium/high: the lowest score,
\* 4.0, persisted.
C1_Witness ==
    /\ call.fn = "persisted"
    /\ call.excuse_text.words = 0
    /\ call.urgency = "asap"
    /\ call.ret = 40
    /\ Len(excuses) = 1
    /\ excuses[1].believability_score = 40

\* C11: every persisted Excuse is owned by an existing User, and every
\* generate-excuse request, a repeated one for the same absent user_id included,
\* is answered with success.
C11_EveryExcuseOwnedAndServed ==
    /\ \A i \in DOMAIN excuses : \E u \in users : u.id = excuses[i].user_id
    /\ resp.op = "generate_excuse" => resp.body.success

\* ------------------------------------- the four routes, served in any order

\* gTTS either speaks and saves, raises before saving, or raises while
\* saving with the file already created.
SpeechOutcomes == {"ok", "raises", "save_raises"}

\* No API key is configured, so every excuse comes from the fallback tables
\* and the API outcome handed to generate_excuse is never consulted.
InitRequests ==
    /\ excuses_db = MinimalFallbacks
    /\ api_key = ""
    /\ tts_available \in BOOLEAN
    /\ InitStore

ServeExcuse ==
    \E user_id \in UserIds :
        /\ generate_excuse("work", "general", "medium", "en", user_id,
                           [kind |-> "quota", content |-> NoContent], 0, 0)
        /\ UNCHANGED <<excuses_db, api_key, tts_available, proofs, files, now, call>>

ServeProof ==
    \E excuse_id \in 1 .. (MaxExcuses + 1), proof_type \in {"email", "video"},
       render \in RenderOutcomes :
        /\ generate_proof(excuse_id, proof_type, render)
        /\ UNCHANGED <<excuses_db, api_key, tts_available, users, now, call>>

VoiceExcuse ==
    \E excuse_id \in 1 .. (MaxExcuses + 1), speech \in SpeechOutcomes :
        /\ voice_excuse(excuse_id, speech)
        /\ UNCHANGED <<excuses_db, api_key, tts_available, users, excuses, proofs, now, call>>

ExcuseHistory ==
    \E user_id \in UserIds, page \in {1, 2} :
        /\ excuse_history(user_id, page, 10)
        /\ UNCHANGED <<excuses_db, api_key, tts_available, users, excuses, proofs, files, now, call>>

NextRequests == ServeExcuse \/ ServeProof \/ VoiceExcuse \/ ExcuseHistory \/ Tick

SpecRequests == InitRequests /\ [][NextRequests]_vars

\* An Excuse is flagged exactly when a ProofDocument row references it, and
\* every ProofDocument row references an Excuse row.
ProofFlagsMatchRows ==
    /\ \A i \in DOMAIN excuses :
          excuses[i].proof_generated <=> (\E j \in DOMAIN proofs : proofs[j].excuse_id = i)
    /\ \A j \in DOMAIN proofs : proofs[j].excuse_id \in DOMAIN excuses

\* A step deletes no Excuse and resets no flag; a step that answers voice-excuse
\* or excuse-history leaves the User, Excuse and ProofDocument rows as they were.
RowsKeptByStep ==
    /\ Len(excuses') >= Len(excuses)
    /\ \A i \in DOMAIN excuses :
          /\ excuses'[i].id = excuses[i].id
          /\ excuses[i].proof_generated => excuses'[i].proof_generated
    /\ resp'.op \in {"voice_excuse", "excuse_history"} =>
          /\ users' = users
          /\ excuses' = excuses
          /\ proofs' = proofs

====
